---- MODULE Spec2Model ----
(***************************************************************************)
(* A model of the segment-based write-ahead log of libsql-wal: the shared  *)
(* WAL of one namespace (current segment, sealed queue, writer lock and    *)
(* waiter queue), the live and sealed segment forms, and the read / write  *)
(* transactions of a fixed set of connections.                             *)
(*                                                                         *)
(* A page image is abstracted to a record [page, data, fno]: the page the  *)
(* image belongs to, the writer's payload (the id of the writing           *)
(* transaction) and the big-endian frame number held in its last 8 bytes.  *)
(* Option values: None is 0 for tx_id and reserved (ids start at 1).       *)
(***************************************************************************)
EXTENDS Integers, Sequences, FiniteSets, TLC

(* ------------------------------ bounds --------------------------------- *)
\* number of connections (threads)
NConn == 3
\* number of database pages
NPages == 2
\* highest frame number a writer may assign
MaxFrameNo == 4
\* highest transaction id handed out by next_tx_id
MaxTxId == 3
\* pages per insert_pages batch
MaxBatch == 2
\* savepoints per write transaction
MaxSavepoints == 2
\* cap on the read-lock counter of a sealed segment (begin_read retries)
MaxReadLocks == 2
\* rotation threshold (shared_wal.rs:170 uses 1000; spec: rotate_frames)
RotateFrames == 1
\* checkpoint threshold (shared_wal.rs:176 uses 10; spec: checkpoint_segments)
CheckpointSegments == 0

Conn == 1..NConn
Pages == 1..NPages

(* ------------------------------ values --------------------------------- *)
\* Option::None of tx_id / reserved
NoId == 0

\* the zero-filled page of a fresh base file (also a caller's untouched buffer)
ZeroBuf == [page |-> 0, data |-> 0, fno |-> 0]

Max(S) == CHOOSE x \in S : \A y \in S : y <= x

EmptyIndex == [p \in {} |-> 0]

(* ------------------------------ LogHeader ------------------------------ *)
HeaderIsEmpty(h) == h.last_commited_frame_no = 0

\* last_commited_frame_no.checked_sub(start_frame_no - 1).unwrap_or(0)
CountCommitted(h) ==
    IF h.last_commited_frame_no >= h.start_frame_no - 1
    THEN h.last_commited_frame_no - (h.start_frame_no - 1)
    ELSE 0

LastCommitted(h) ==
    IF HeaderIsEmpty(h) THEN h.start_frame_no - 1 ELSE h.last_commited_frame_no

\* size_of::<LogHeader>() and size_of::<Frame>()
LogHeaderSize == 36
FrameSize == 4104

ByteOffset(offset) == LogHeaderSize + offset * FrameSize

(* ------------------------------ Log ------------------------------------ *)
\* a segment that starts at frame 1 whatever it was asked
LogCreateAtOne(start_frame_no, db_size) ==
    LET h == [start_frame_no |-> 1,
              last_commited_frame_no |-> 0,
              db_size |-> db_size,
              index_offset |-> 0,
              index_size |-> 0]
    IN [header |-> h,
        file_header |-> h,
        index_start |-> 0,
        index |-> [p \in Pages |-> <<>>],
        frames |-> <<>>,
        read_locks |-> 0,
        sealed |-> FALSE,
        removed |-> FALSE]

\* Log::create: header with last_commited_frame_no 0, an index built by
\* LogIndex::default() (so LogIndex.start_frame_no is 0), no read locks.
LogCreate(start_frame_no, db_size) ==
    LET h == [start_frame_no |-> start_frame_no,
              last_commited_frame_no |-> 0,
              db_size |-> db_size,
              index_offset |-> 0,
              index_size |-> 0]
    IN [header |-> h,
        file_header |-> h,
        index_start |-> 0,
        index |-> [p \in Pages |-> <<>>],
        frames |-> <<>>,
        read_locks |-> 0,
        sealed |-> FALSE,
        removed |-> FALSE]

VARIABLES
    logs,        \* every segment file ever created, by id: its live (Log) form
    current,     \* SharedWal.current: id of the current segment
    segments,    \* SharedWal.segments: queue of SealedLog, oldest first
    db_file,     \* the base database file: page -> image
    tx_id,       \* the writer lock: NoId or the id of the holder
    next_tx_id,  \* SharedWal.next_tx_id
    reserved,    \* WalLock.reserved: NoId or a connection id
    waiters,     \* the waiter queue: connection ids, oldest first
    tx,          \* the transaction of each connection
    pc,          \* the position of each connection
    hist,        \* history: frame number -> [page, data] of the committed frame
    published,   \* history: the (last committed, db_size) pairs commits published
    commits      \* history: tx id -> next_frame_no at commit (0: not committed)

vars == <<logs, current, segments, db_file, tx_id, next_tx_id, reserved, waiters,
          tx, pc, hist, published, commits>>

(* ------------------------------ transactions --------------------------- *)
NoTx == [kind |-> "none", log |-> 0, max_frame_no |-> 0, db_size |-> 0, id |-> 0,
         savepoints |-> <<>>, next_frame_no |-> 0, next_offset |-> 0,
         is_commited |-> FALSE]

ReadTx(log, max_frame_no, db_size) ==
    [NoTx EXCEPT !.kind = "read", !.log = log, !.max_frame_no = max_frame_no,
                 !.db_size = db_size]

Savepoint(next_offset, next_frame_no) ==
    [next_offset |-> next_offset, next_frame_no |-> next_frame_no, index |-> EmptyIndex]

(* ------------------------------ reading -------------------------------- *)
\* An Option is a sequence of length 0 (None) or 1 (Some).

\* LogIndex::locate: the newest offset of the page whose
\* LogIndex.start_frame_no + offset is <= max_frame_no.
LogIndexLocate(log, page_no, max_frame_no) ==
    LET offsets == log.index[page_no]
        ok == {i \in 1..Len(offsets) : log.index_start + offsets[i] <= max_frame_no}
    IN IF ok = {} THEN <<>> ELSE <<offsets[Max(ok)]>>

\* WriteTransaction::find_frame: the savepoint indices, newest savepoint first.
TxFindFrame(t, page_no) ==
    LET ks == {k \in 1..Len(t.savepoints) : page_no \in DOMAIN t.savepoints[k].index}
    IN IF ks = {} THEN <<>> ELSE <<t.savepoints[Max(ks)].index[page_no]>>

\* Log::find_frame
LogFindFrame(log, page_no, t) ==
    IF t.kind = "write" /\ TxFindFrame(t, page_no) # <<>>
    THEN TxFindFrame(t, page_no)
    ELSE LogIndexLocate(log, page_no, t.max_frame_no)

FrameBuf(f) == [page |-> f.page_no, data |-> f.data, fno |-> f.fno]

\* Log::read_page_offset / SealedLog::read_offset: the image in the slot; a read
\* past the end of the file fails and leaves the caller's buffer as it was.
ReadPageOffset(log, offset) ==
    IF offset + 1 <= Len(log.frames) THEN FrameBuf(log.frames[offset + 1]) ELSE ZeroBuf

\* SealedLog::read_page
SealedReadPage(seg, page_no, max_frame_no) ==
    IF seg.header.last_commited_frame_no > max_frame_no THEN <<>>
    ELSE IF page_no \in DOMAIN seg.index
         THEN <<ReadPageOffset(logs[seg.log], seg.index[page_no])>>
         ELSE <<>>

\* SharedWal::read_from_segments: newest to oldest, from queue position i down.
RECURSIVE ReadFromSegments(_, _, _)
ReadFromSegments(page_no, max_frame_no, i) ==
    IF i = 0 THEN <<>>
    ELSE LET r == SealedReadPage(segments[i], page_no, max_frame_no)
         IN IF r # <<>> THEN r ELSE ReadFromSegments(page_no, max_frame_no, i - 1)

\* the assertions of read_from_segments, on the whole queue from newest to
\* oldest: assert!(prev_seg > last), prev_seg being u64::MAX at first
SegmentsAssertion ==
    \A i \in 1..(Len(segments) - 1) :
        segments[i + 1].header.last_commited_frame_no
            > segments[i].header.last_commited_frame_no

\* SharedWal::read_frame: the buffer it hands back for transaction t.
ReadFrameBuf(t, page_no) ==
    LET f == LogFindFrame(logs[t.log], page_no, t)
    IN IF f # <<>> THEN ReadPageOffset(logs[t.log], f[1])
       ELSE LET s == ReadFromSegments(page_no, t.max_frame_no, Len(segments))
            IN IF s # <<>> THEN s[1] ELSE db_file[page_no]

\* the tx_id mutex is held from WriteTransaction::enter to the end of insert_pages
TxMutexHeld == \E c \in Conn : pc[c] \in {"merge", "publish"}

TypeOK ==
    /\ current \in 1..Len(logs)
    /\ tx_id \in 0..MaxTxId
    /\ reserved \in {NoId} \cup Conn
    /\ \A c \in Conn : tx[c].kind \in {"none", "read", "write"}

Init ==
    /\ logs = <<LogCreate(1, 0)>>
    /\ current = 1
    /\ segments = <<>>
    /\ db_file = [p \in Pages |-> ZeroBuf]
    /\ tx_id = NoId
    /\ next_tx_id = 1
    /\ reserved = NoId
    /\ waiters = <<>>
    /\ tx = [c \in Conn |-> NoTx]
    /\ pc = [c \in Conn |-> "idle"]
    /\ hist = <<>>
    /\ published = {<<0, 0>>}
    /\ commits = [i \in 1..MaxTxId |-> 0]

\* an upgrade that takes the None arm whatever the lock holds
LockIsFreeAlways == TRUE

\* the test of the writer lock in upgrade: match *lock { Some(id) .. None .. }
LockIsFree == tx_id = NoId

(* ------------------------------ begin_read ----------------------------- *)
\* a begin_read that waits for the writer lock to be free
BeginLoadUnderLock(c) ==
    /\ LockIsFree
    /\ pc[c] \in {"idle", "br_load"}
    /\ tx[c].kind = "none"
    /\ logs[current].sealed => logs[current].read_locks < MaxReadLocks
    /\ tx' = [tx EXCEPT ![c].log = current]
    /\ logs' = [logs EXCEPT ![current].read_locks = @ + 1]
    /\ pc' = [pc EXCEPT ![c] = "br_check"]
    /\ UNCHANGED <<current, segments, db_file, tx_id, next_tx_id, reserved, waiters,
                   hist, published, commits>>

\* let current = self.current.load(); current.read_locks.fetch_add(1): the
\* pointer load and the increment of the loaded segment's counter, one step
\* (nothing reads the counter of a segment between the two but checkpoint,
\* and the sealed test below follows both). The retries on a sealed segment
\* are capped.
BeginLoad(c) ==
    /\ pc[c] \in {"idle", "br_load"}
    /\ tx[c].kind = "none"
    /\ logs[current].sealed => logs[current].read_locks < MaxReadLocks
    /\ tx' = [tx EXCEPT ![c].log = current]
    /\ logs' = [logs EXCEPT ![current].read_locks = @ + 1]
    /\ pc' = [pc EXCEPT ![c] = "br_check"]
    /\ UNCHANGED <<current, segments, db_file, tx_id, next_tx_id, reserved, waiters,
                   hist, published, commits>>

\* begin_read_infos with db_size taken from the header on disk, which a commit
\* in progress has already written
BeginReadInfosTorn(log) == <<LastCommitted(log.header), log.file_header.db_size>>

\* Log::begin_read_infos: both fields read under the header mutex
BeginReadInfos(log) == <<LastCommitted(log.header), log.header.db_size>>

\* a begin_read that returns whatever the sealed flag says
BeginCheckIgnoringSeal(c) ==
    /\ pc[c] = "br_check"
    /\ LET infos == BeginReadInfos(logs[tx[c].log])
       IN /\ tx' = [tx EXCEPT ![c] = ReadTx(tx[c].log, infos[1], infos[2])]
          /\ pc' = [pc EXCEPT ![c] = "idle"]
    /\ UNCHANGED <<logs, current, segments, db_file, tx_id, next_tx_id, reserved,
                   waiters, hist, published, commits>>

\* if current.sealed { continue } else { begin_read_infos; return }
BeginCheck(c) ==
    /\ pc[c] = "br_check"
    /\ IF logs[tx[c].log].sealed
       THEN /\ pc' = [pc EXCEPT ![c] = "br_load"]
            /\ tx' = [tx EXCEPT ![c].log = 0]
       ELSE LET infos == BeginReadInfos(logs[tx[c].log])
            IN /\ tx' = [tx EXCEPT ![c] = ReadTx(tx[c].log, infos[1], infos[2])]
               /\ pc' = [pc EXCEPT ![c] = "idle"]
    /\ UNCHANGED <<logs, current, segments, db_file, tx_id, next_tx_id, reserved,
                   waiters, hist, published, commits>>

\* impl Drop for ReadTransaction; after BusySnapshot the caller restarts: it
\* drops the read transaction.
DropTx(c) ==
    /\ pc[c] \in {"idle", "busy"}
    /\ tx[c].kind = "read"
    /\ logs' = [logs EXCEPT ![tx[c].log].read_locks = @ - 1]
    /\ tx' = [tx EXCEPT ![c] = NoTx]
    /\ pc' = [pc EXCEPT ![c] = "idle"]
    /\ UNCHANGED <<current, segments, db_file, tx_id, next_tx_id, reserved, waiters,
                   hist, published, commits>>

\* A write transaction dropped without downgrade: WriteTransaction has no Drop
\* of its own, so only its read_tx field is dropped; the writer lock keeps the id.
DropWriteTx(c) ==
    /\ pc[c] = "idle"
    /\ tx[c].kind = "write"
    /\ logs' = [logs EXCEPT ![tx[c].log].read_locks = @ - 1]
    /\ tx' = [tx EXCEPT ![c] = NoTx]
    /\ UNCHANGED <<current, segments, db_file, tx_id, next_tx_id, reserved, waiters,
                   pc, hist, published, commits>>

(* ------------------------------ upgrade -------------------------------- *)
\* Log::frames_in_log (not among the sources): the committed frames of the segment
FramesInLog(log) == CountCommitted(log.header)

\* an upgrade without the snapshot test
SnapshotNeverStale(t) == FALSE

\* if read_tx.max_frame_no != last_commited { return Err(BusySnapshot) }
SnapshotIsStale(t) == t.max_frame_no # LastCommitted(logs[current].header)

\* a write transaction that starts at the last committed frame number
WriteTxReusingFrameNo(t, id) ==
    LET last_commited == LastCommitted(logs[current].header)
        next_offset == FramesInLog(logs[current])
    IN [t EXCEPT !.kind = "write", !.id = id,
                 !.savepoints = <<Savepoint(next_offset, last_commited)>>,
                 !.next_frame_no = last_commited,
                 !.next_offset = next_offset,
                 !.is_commited = FALSE]

\* a write transaction that records the id before the one upgrade took
WriteTxStaleId(t, id) ==
    LET last_commited == LastCommitted(logs[current].header)
        next_offset == FramesInLog(logs[current])
    IN [t EXCEPT !.kind = "write", !.id = id - 1,
                 !.savepoints = <<Savepoint(next_offset, last_commited + 1)>>,
                 !.next_frame_no = last_commited + 1,
                 !.next_offset = next_offset,
                 !.is_commited = FALSE]

\* Transaction::Write(WriteTransaction { .. }) built by upgrade
WriteTx(t, id) ==
    LET last_commited == LastCommitted(logs[current].header)
        next_offset == FramesInLog(logs[current])
    IN [t EXCEPT !.kind = "write", !.id = id,
                 !.savepoints = <<Savepoint(next_offset, last_commited + 1)>>,
                 !.next_frame_no = last_commited + 1,
                 !.next_offset = next_offset,
                 !.is_commited = FALSE]

\* an upgrade that writes the lock before the snapshot test
UpgradeClaimsFirst(c) ==
    /\ pc[c] \in {"idle", "woken"}
    /\ tx[c].kind = "read"
    /\ ~TxMutexHeld
    /\ IF ~LockIsFree
       THEN /\ waiters' = Append(waiters, c)
            /\ pc' = [pc EXCEPT ![c] = "parked"]
            /\ UNCHANGED <<tx_id, next_tx_id, tx>>
       ELSE /\ next_tx_id <= MaxTxId
            /\ next_tx_id' = next_tx_id + 1
            /\ tx_id' = next_tx_id
            /\ UNCHANGED waiters
            /\ IF SnapshotIsStale(tx[c])
               THEN /\ pc' = [pc EXCEPT ![c] = "busy"]
                    /\ UNCHANGED tx
               ELSE /\ tx' = [tx EXCEPT ![c] = WriteTx(tx[c], next_tx_id)]
                    /\ pc' = [pc EXCEPT ![c] = "idle"]
    /\ UNCHANGED <<logs, current, segments, db_file, reserved, hist, published, commits>>

\* One turn of the loop of SharedWal::upgrade, under the tx_id mutex: enqueue
\* and park when the lock is held, else take an id and claim, or fail with
\* BusySnapshot (pc "busy"). A woken waiter takes the same turn again.
UpgradeAttempt(c) ==
    /\ pc[c] \in {"idle", "woken"}
    /\ tx[c].kind = "read"
    /\ ~TxMutexHeld
    /\ IF ~LockIsFree
       THEN /\ waiters' = Append(waiters, c)
            /\ pc' = [pc EXCEPT ![c] = "parked"]
            /\ UNCHANGED <<tx_id, next_tx_id, tx>>
       ELSE /\ next_tx_id <= MaxTxId
            /\ next_tx_id' = next_tx_id + 1
            /\ UNCHANGED waiters
            /\ IF SnapshotIsStale(tx[c])
               THEN /\ pc' = [pc EXCEPT ![c] = "busy"]
                    /\ UNCHANGED <<tx_id, tx>>
               ELSE /\ tx_id' = next_tx_id
                    /\ tx' = [tx EXCEPT ![c] = WriteTx(tx[c], next_tx_id)]
                    /\ pc' = [pc EXCEPT ![c] = "idle"]
    /\ UNCHANGED <<logs, current, segments, db_file, reserved, hist, published, commits>>

(* ------------------------------ downgrade ------------------------------ *)
\* Some(lock_id) if lock_id == id => lock.take()
ReleasedLock(id) == IF tx_id = id THEN NoId ELSE tx_id

\* a downgrade that wakes the oldest waiter whatever reserved holds
DowngradeIgnoringReserved(c) ==
    /\ pc[c] = "idle"
    /\ tx[c].kind = "write"
    /\ ~TxMutexHeld
    /\ tx_id' = ReleasedLock(tx[c].id)
    /\ tx' = [tx EXCEPT ![c] = ReadTx(tx[c].log, tx[c].max_frame_no, tx[c].db_size)]
    /\ IF waiters = <<>>
       THEN UNCHANGED <<reserved, waiters, pc>>
       ELSE /\ reserved' = Head(waiters)
            /\ waiters' = Tail(waiters)
            /\ pc' = [pc EXCEPT ![Head(waiters)] = "woken"]
    /\ UNCHANGED <<logs, current, segments, db_file, next_tx_id, hist, published, commits>>

\* WriteTransaction::downgrade, under the tx_id mutex: release the lock if it is
\* ours; return if a reservation stands; else steal the oldest waiter, record
\* it in reserved and unpark it.
Downgrade(c) ==
    /\ pc[c] = "idle"
    /\ tx[c].kind = "write"
    /\ ~TxMutexHeld
    /\ tx_id' = ReleasedLock(tx[c].id)
    /\ tx' = [tx EXCEPT ![c] = ReadTx(tx[c].log, tx[c].max_frame_no, tx[c].db_size)]
    /\ IF reserved # NoId \/ waiters = <<>>
       THEN UNCHANGED <<reserved, waiters, pc>>
       ELSE /\ reserved' = Head(waiters)
            /\ waiters' = Tail(waiters)
            /\ pc' = [pc EXCEPT ![Head(waiters)] = "woken"]
    /\ UNCHANGED <<logs, current, segments, db_file, next_tx_id, hist, published, commits>>

(* ------------------------------ insert_pages --------------------------- *)
Range(f) == {f[i] : i \in DOMAIN f}

\* the dirty pages of a statement: at most MaxBatch distinct pages, ascending
Batches ==
    {b \in UNION {[1..n -> Pages] : n \in 0..MaxBatch} :
        \A i \in 1..Len(b), j \in 1..Len(b) : i < j => b[i] < b[j]}

\* the size_after the SQL engine passes on a commit: the database size in pages
\* once the buffered pages are part of it (0, no commit, while that is empty)
CommitSize(t, batch) ==
    Max({t.db_size} \cup Range(batch)
        \cup UNION {DOMAIN t.savepoints[k].index : k \in 1..Len(t.savepoints)})

HoleFrame == [page_no |-> 0, size_after |-> 0, data |-> 0, fno |-> 0]

\* the i-th frame of a batch: FrameHeader { page_no, size_after }, the page and
\* the frame number tx.next_frame_no; size_after only on the last page
NewFrame(t, batch, size_after, i) ==
    [page_no |-> batch[i],
     size_after |-> IF i = Len(batch) THEN size_after ELSE 0,
     data |-> t.id,
     fno |-> t.next_frame_no + (i - 1)]

\* the file after write_at_vectored of every frame at byte_offset(tx.next_offset)
WriteFrames(frames, t, batch, size_after) ==
    LET n == Len(batch)
        o == t.next_offset
        len == IF o + n > Len(frames) THEN o + n ELSE Len(frames)
    IN [j \in 1..len |->
            IF j > o /\ j <= o + n THEN NewFrame(t, batch, size_after, j - o)
            ELSE IF j <= Len(frames) THEN frames[j] ELSE HoleFrame]

\* current_savepoint.index.insert(page_no, offset) for every page of the batch
InsertIndex(index, t, batch) ==
    [p \in DOMAIN index \cup Range(batch) |->
        IF p \in Range(batch)
        THEN t.next_offset + Max({i \in 1..Len(batch) : batch[i] = p}) - 1
        ELSE index[p]]

\* the transaction after the frame loop of insert_pages
TxAfterFrames(t, batch) ==
    LET k == Len(t.savepoints)
    IN [t EXCEPT !.next_frame_no = @ + Len(batch),
                 !.next_offset = @ + Len(batch),
                 !.savepoints[k].index = InsertIndex(@, t, batch)]

\* tx.savepoints.iter().any(|s| !s.index.is_empty())
AnyBuffered(t) == \E k \in 1..Len(t.savepoints) : DOMAIN t.savepoints[k].index # {}

\* the header built by a commit: last_commited_frame_no and db_size replaced
CommitHeader(h, t, size_after) ==
    [h EXCEPT !.last_commited_frame_no = t.next_frame_no - 1, !.db_size = size_after]

\* Log::len (not among the sources): the committed frames of the segment
LogLen(log) == CountCommitted(log.header)

\* the rest of insert_frames after insert_pages:
\*   if tx.is_commited() && current.len() > 1000 { swap_current }
\*   if self.segments.read().len() > 10 { checkpoint }
\* (the sealed queue changes only under the writer lock, so the second test is
\* decided here when no rotation comes first)
AfterInsert(t, log) ==
    IF t.is_commited /\ LogLen(log) > RotateFrames THEN "seal"
    ELSE IF Len(segments) > CheckpointSegments THEN "ckpt"
    ELSE "idle"

\* SharedWal::insert_frames up to the header write of Log::insert_pages: enters
\* the critical section, appends the frames to the current segment, and on a
\* commit with buffered frames writes the new header to the file.
InsertPages(c, batch, commit) ==
    /\ pc[c] = "idle"
    /\ tx[c].kind = "write"
    /\ ~tx[c].is_commited
    /\ tx_id = tx[c].id
    /\ ~logs[current].sealed
    /\ tx[c].next_frame_no + Len(batch) - 1 <= MaxFrameNo
    /\ LET size_after == IF commit THEN CommitSize(tx[c], batch) ELSE 0
           t == TxAfterFrames(tx[c], batch)
           frames == WriteFrames(logs[current].frames, tx[c], batch, size_after)
       IN IF size_after # 0 /\ AnyBuffered(t)
          THEN /\ logs' = [logs EXCEPT ![current].frames = frames,
                                        ![current].file_header =
                                            CommitHeader(logs[current].header, t, size_after)]
               /\ tx' = [tx EXCEPT ![c] = t]
               /\ pc' = [pc EXCEPT ![c] = "merge"]
               /\ UNCHANGED commits
          ELSE /\ logs' = [logs EXCEPT ![current].frames = frames]
               /\ tx' = [tx EXCEPT ![c] = [t EXCEPT !.is_commited = (size_after # 0)]]
               /\ pc' = [pc EXCEPT ![c] = AfterInsert(tx'[c], logs'[current])]
               /\ commits' = IF size_after # 0
                             THEN [commits EXCEPT ![t.id] = t.next_frame_no]
                             ELSE commits
    /\ UNCHANGED <<current, segments, db_file, tx_id, next_tx_id, reserved, waiters,
                   hist, published>>

\* transaction::merge_savepoints (not among the sources): every page of the
\* savepoint indices gets the offset of its newest savepoint appended
MergeSavepoints(t, index) ==
    [p \in Pages |-> IF TxFindFrame(t, p) # <<>>
                     THEN Append(index[p], TxFindFrame(t, p)[1])
                     ELSE index[p]]

\* a commit that publishes the header where it should merge the index
MergeIndexAfterHeader(c) ==
    /\ pc[c] = "merge"
    /\ logs' = [logs EXCEPT ![current].header = logs[current].file_header]
    /\ pc' = [pc EXCEPT ![c] = "publish"]
    /\ UNCHANGED <<current, segments, db_file, tx_id, next_tx_id, reserved, waiters,
                   tx, hist, published, commits>>

\* merge_savepoints(savepoints, &mut self.index.index.write())
MergeIndex(c) ==
    /\ pc[c] = "merge"
    /\ logs' = [logs EXCEPT ![current].index = MergeSavepoints(tx[c], @)]
    /\ pc' = [pc EXCEPT ![c] = "publish"]
    /\ UNCHANGED <<current, segments, db_file, tx_id, next_tx_id, reserved, waiters,
                   tx, hist, published, commits>>

\* the committed frames after a commit up to frame number last, read from the file
HistAfter(frames, start_frame_no, last) ==
    [f \in 1..last |->
        IF f <= Len(hist) THEN hist[f]
        ELSE LET b == IF f - start_frame_no + 1 \in 1..Len(frames)
                      THEN frames[f - start_frame_no + 1] ELSE HoleFrame
             IN [page |-> b.page_no, data |-> b.data]]

\* *self.header.lock() = header; tx.is_commited = true; then the rotation test
PublishHeader(c) ==
    /\ pc[c] = "publish"
    /\ logs' = [logs EXCEPT ![current].header = logs[current].file_header]
    /\ tx' = [tx EXCEPT ![c].is_commited = TRUE]
    /\ pc' = [pc EXCEPT ![c] = AfterInsert(tx'[c], logs'[current])]
    /\ hist' = HistAfter(logs[current].frames, logs[current].header.start_frame_no,
                         LastCommitted(logs'[current].header))
    /\ published' = published \cup {BeginReadInfos(logs'[current])}
    /\ commits' = [commits EXCEPT ![tx[c].id] = tx[c].next_frame_no]
    /\ UNCHANGED <<current, segments, db_file, tx_id, next_tx_id, reserved, waiters>>

(* ------------------------------ I/O errors in insert_pages ------------- *)
\* the transaction after a frame loop that the write of page number k of the
\* batch ends with Err: the pages before it are written and in the savepoint
\* index, and next_frame_no and next_offset have been advanced for page k too
\* (tx.next_frame_no += 1; tx.next_offset += 1 precede write_at_vectored(..)?)
TxAfterFailedFrame(t, batch, k) ==
    LET done == TxAfterFrames(t, SubSeq(batch, 1, k - 1))
    IN [done EXCEPT !.next_frame_no = @ + 1, !.next_offset = @ + 1]

\* a header write that fails after the savepoint indexes were merged into the
\* page map of the segment
InsertPagesFailAfterMerge(c, batch, commit, k) ==
    /\ pc[c] = "idle"
    /\ tx[c].kind = "write"
    /\ ~tx[c].is_commited
    /\ tx_id = tx[c].id
    /\ ~logs[current].sealed
    /\ tx[c].next_frame_no + Len(batch) - 1 < MaxFrameNo
    /\ k \in 1..(Len(batch) + 1)
    /\ LET size_after == IF commit THEN CommitSize(tx[c], batch) ELSE 0
           written == SubSeq(batch, 1, k - 1)
           t == IF k <= Len(batch) THEN TxAfterFailedFrame(tx[c], batch, k)
                ELSE TxAfterFrames(tx[c], batch)
           frames == WriteFrames(logs[current].frames, tx[c], written,
                                 IF k <= Len(batch) THEN 0 ELSE size_after)
       IN /\ k = Len(batch) + 1 => (size_after # 0 /\ AnyBuffered(t))
          /\ logs' = [logs EXCEPT ![current].frames = frames,
                                  ![current].index =
                                      IF k = Len(batch) + 1 THEN MergeSavepoints(t, @) ELSE @]
          /\ tx' = [tx EXCEPT ![c] = t]
          /\ pc' = [pc EXCEPT ![c] = AfterInsert(tx'[c], logs'[current])]
    /\ UNCHANGED <<current, segments, db_file, tx_id, next_tx_id, reserved, waiters,
                   hist, published, commits>>

\* insert_frames whose insert_pages returns Err: from the write of page k of
\* the batch, or for k = Len(batch) + 1 from the write of the commit header
\* (the header in the file is left as it was). Neither the page map nor the
\* in-memory header is reached; insert_frames drops the Err and goes on to its
\* rotation and checkpoint tests.
InsertPagesFail(c, batch, commit, k) ==
    /\ pc[c] = "idle"
    /\ tx[c].kind = "write"
    /\ ~tx[c].is_commited
    /\ tx_id = tx[c].id
    /\ ~logs[current].sealed
    /\ tx[c].next_frame_no + Len(batch) - 1 < MaxFrameNo
    /\ k \in 1..(Len(batch) + 1)
    /\ LET size_after == IF commit THEN CommitSize(tx[c], batch) ELSE 0
           written == SubSeq(batch, 1, k - 1)
           t == IF k <= Len(batch) THEN TxAfterFailedFrame(tx[c], batch, k)
                ELSE TxAfterFrames(tx[c], batch)
           frames == WriteFrames(logs[current].frames, tx[c], written,
                                 IF k <= Len(batch) THEN 0 ELSE size_after)
       IN /\ k = Len(batch) + 1 => (size_after # 0 /\ AnyBuffered(t))
          /\ logs' = [logs EXCEPT ![current].frames = frames]
          /\ tx' = [tx EXCEPT ![c] = t]
          /\ pc' = [pc EXCEPT ![c] = AfterInsert(tx'[c], logs'[current])]
    /\ UNCHANGED <<current, segments, db_file, tx_id, next_tx_id, reserved, waiters,
                   hist, published, commits>>

(* ------------------------------ rotation ------------------------------- *)
\* LogIndex::merge_all: every page of the live map with the last offset of its list
MergeAll(index) ==
    [p \in {q \in Pages : index[q] # <<>>} |-> index[p][Len(index[p])]]

\* the header Log::seal writes: index_offset right after the committed frames
SealHeader(log) ==
    [log.header EXCEPT !.index_offset = ByteOffset(CountCommitted(log.header)),
                       !.index_size = Cardinality(DOMAIN MergeAll(log.index))]

\* SealedLog::open on the sealed file: the header read back, the index blob, and
\* the read-lock counter shared with the live form (kept in logs[id])
SealedLogOpen(id, log) ==
    [log |-> id, header |-> log.file_header, index |-> MergeAll(log.index)]

\* a seal that leaves the sealed flag as it was
SealWithoutFlag(c) ==
    /\ pc[c] = "seal"
    /\ ~logs[current].sealed
    /\ LET sealed == [logs[current] EXCEPT !.header = SealHeader(logs[current]),
                                           !.file_header = SealHeader(logs[current])]
       IN /\ logs' = [logs EXCEPT ![current] = sealed]
          /\ segments' = Append(segments, SealedLogOpen(current, sealed))
    /\ pc' = [pc EXCEPT ![c] = "swap"]
    /\ UNCHANGED <<current, db_file, tx_id, next_tx_id, reserved, waiters, tx,
                   hist, published, commits>>

\* a rotation that puts the sealed segment at the front of the queue
SealPushFront(c) ==
    /\ pc[c] = "seal"
    /\ ~logs[current].sealed
    /\ LET sealed == [logs[current] EXCEPT !.sealed = TRUE,
                                           !.header = SealHeader(logs[current]),
                                           !.file_header = SealHeader(logs[current])]
       IN /\ logs' = [logs EXCEPT ![current] = sealed]
          /\ segments' = <<SealedLogOpen(current, sealed)>> \o segments
    /\ pc' = [pc EXCEPT ![c] = "swap"]
    /\ UNCHANGED <<current, db_file, tx_id, next_tx_id, reserved, waiters, tx,
                   hist, published, commits>>

\* WalRegistry::swap_current (not among the sources), first half: Log::seal of
\* the current segment and its append to the sealed queue
Seal(c) ==
    /\ pc[c] = "seal"
    /\ ~logs[current].sealed
    /\ LET sealed == [logs[current] EXCEPT !.sealed = TRUE,
                                           !.header = SealHeader(logs[current]),
                                           !.file_header = SealHeader(logs[current])]
       IN /\ logs' = [logs EXCEPT ![current] = sealed]
          /\ segments' = Append(segments, SealedLogOpen(current, sealed))
    /\ pc' = [pc EXCEPT ![c] = "swap"]
    /\ UNCHANGED <<current, db_file, tx_id, next_tx_id, reserved, waiters, tx,
                   hist, published, commits>>

\* Log::seal that returns Err: the compare_exchange on the sealed flag comes
\* first, then merge_all(..)? (stage 1) and, after the header in memory has
\* got index_offset and index_size, write_all_at(header, 0)? (stage 2). No
\* SealedLog is built; swap_current gives up and insert_frames goes on to its
\* checkpoint test.
SealFail(c, stage) ==
    /\ pc[c] = "seal"
    /\ ~logs[current].sealed
    /\ stage \in 1..2
    /\ logs' = [logs EXCEPT ![current].sealed = TRUE,
                            ![current].header =
                                IF stage = 2 THEN SealHeader(logs[current]) ELSE @]
    /\ pc' = [pc EXCEPT ![c] = IF Len(segments) > CheckpointSegments
                                THEN "ckpt" ELSE "idle"]
    /\ UNCHANGED <<current, segments, db_file, tx_id, next_tx_id, reserved, waiters, tx,
                   hist, published, commits>>

\* WalRegistry::swap_current, second half: a fresh segment starting after the
\* last committed frame, with the old db_size, published as the current one
SwapCurrent(c) ==
    /\ pc[c] = "swap"
    /\ logs' = Append(logs, LogCreate(LastCommitted(logs[current].header) + 1,
                                      logs[current].header.db_size))
    /\ current' = Len(logs) + 1
    /\ pc' = [pc EXCEPT ![c] = IF Len(segments) > CheckpointSegments
                                THEN "ckpt" ELSE "idle"]
    /\ UNCHANGED <<segments, db_file, tx_id, next_tx_id, reserved, waiters, tx,
                   hist, published, commits>>

(* ------------------------------ checkpoint ----------------------------- *)
\* a checkpoint that takes the whole queue whatever the read locks
CheckpointPrefixAll == Len(segments)

\* segs.iter().take_while(|s| s.read_locks == 0): the length of that prefix
CheckpointPrefix ==
    Max({k \in 0..Len(segments) :
            \A i \in 1..k : logs[segments[i].log].read_locks = 0})

\* a checkpoint that picks the oldest segment of the prefix holding the page
CheckpointImageOldest(n, p) ==
    LET has == {i \in 1..n : p \in DOMAIN segments[i].index}
        first == CHOOSE i \in has : \A j \in has : i <= j
    IN IF has = {} THEN db_file[p]
       ELSE ReadPageOffset(logs[segments[first].log], segments[first].index[p])

\* the union of the indices of the prefix, newest segment winning
CheckpointImage(n, p) ==
    LET has == {i \in 1..n : p \in DOMAIN segments[i].index}
    IN IF has = {} THEN db_file[p]
       ELSE ReadPageOffset(logs[segments[Max(has)].log], segments[Max(has)].index[p])

\* a checkpoint that pops the prefix without writing it to the base file
CheckpointWithoutWrite(c) ==
    /\ pc[c] = "ckpt"
    /\ pc' = [pc EXCEPT ![c] = "idle"]
    /\ IF CheckpointPrefix > 0
       THEN LET n == CheckpointPrefix
            IN /\ segments' = SubSeq(segments, n + 1, Len(segments))
               /\ logs' = [i \in 1..Len(logs) |->
                              IF \E k \in 1..n : segments[k].log = i
                              THEN [logs[i] EXCEPT !.removed = TRUE] ELSE logs[i]]
               /\ UNCHANGED db_file
       ELSE UNCHANGED <<db_file, segments, logs>>
    /\ UNCHANGED <<current, tx_id, next_tx_id, reserved, waiters, tx, hist, published,
                   commits>>

\* SharedWal::checkpoint, called at the end of insert_frames
CheckpointStep(c) ==
    /\ pc[c] = "ckpt"
    /\ pc' = [pc EXCEPT ![c] = "idle"]
    /\ IF CheckpointPrefix > 0
       THEN LET n == CheckpointPrefix
            IN /\ db_file' = [p \in Pages |-> CheckpointImage(n, p)]
               /\ segments' = SubSeq(segments, n + 1, Len(segments))
               /\ logs' = [i \in 1..Len(logs) |->
                              IF \E k \in 1..n : segments[k].log = i
                              THEN [logs[i] EXCEPT !.removed = TRUE] ELSE logs[i]]
       ELSE UNCHANGED <<db_file, segments, logs>>
    /\ UNCHANGED <<current, tx_id, next_tx_id, reserved, waiters, tx, hist, published,
                   commits>>

\* SharedWal::checkpoint stopped by an I/O error: write_all_at or sync_all
\* returns Err and unwrap panics, after the pages below page number k of the
\* union (written in key order) have reached the base file. The queue is not
\* drained; the thread is gone, with its transaction as it was.
CheckpointFail(c, k) ==
    /\ pc[c] = "ckpt"
    /\ CheckpointPrefix > 0
    /\ pc' = [pc EXCEPT ![c] = "panicked"]
    /\ db_file' = [p \in Pages |-> IF p < k THEN CheckpointImage(CheckpointPrefix, p)
                                   ELSE db_file[p]]
    /\ UNCHANGED <<logs, current, segments, tx_id, next_tx_id, reserved, waiters, tx,
                   hist, published, commits>>

(* ------------------------------ read_frame ----------------------------- *)
\* assert!(frame_no <= tx.max_frame_no) at the end of read_frame
ReadAssertion(t, page_no) == ReadFrameBuf(t, page_no).fno <= t.max_frame_no

\* SharedWal::read_frame: changes nothing; the thread stops where the assertion fails
ReadFrame(c, page_no) ==
    /\ pc[c] = "idle"
    /\ tx[c].kind \in {"read", "write"}
    /\ pc' = [pc EXCEPT ![c] = IF ReadAssertion(tx[c], page_no)
                                THEN "idle" ELSE "assert_failed"]
    /\ UNCHANGED <<logs, current, segments, db_file, tx_id, next_tx_id, reserved,
                   waiters, tx, hist, published, commits>>

(* ------------------------------ savepoints ----------------------------- *)
\* WriteTransaction::savepoint
SavepointPush(c) ==
    /\ pc[c] = "idle"
    /\ tx[c].kind = "write"
    /\ ~tx[c].is_commited
    /\ Len(tx[c].savepoints) < MaxSavepoints
    /\ tx' = [tx EXCEPT ![c].savepoints =
                  Append(@, Savepoint(tx[c].next_offset, tx[c].next_frame_no))]
    /\ UNCHANGED <<logs, current, segments, db_file, tx_id, next_tx_id, reserved,
                   waiters, pc, hist, published, commits>>

\* WriteTransaction::reset(savepoint_id)
Reset(c, savepoint_id) ==
    /\ pc[c] = "idle"
    /\ tx[c].kind = "write"
    /\ ~tx[c].is_commited
    /\ savepoint_id < Len(tx[c].savepoints)
    /\ LET kept == SubSeq(tx[c].savepoints, 1, savepoint_id + 1)
       IN tx' = [tx EXCEPT ![c].savepoints = kept,
                           ![c].next_frame_no = kept[Len(kept)].next_frame_no,
                           ![c].next_offset = kept[Len(kept)].next_offset]
    /\ UNCHANGED <<logs, current, segments, db_file, tx_id, next_tx_id, reserved,
                   waiters, pc, hist, published, commits>>

(* ------------------------------ specification -------------------------- *)
\* insert_frames while the frame numbers stay below MaxFrameNo: the statements
\* of the specifications in which a statement need not commit
InsertPagesBelow(c, batch, commit) ==
    /\ tx[c].next_frame_no + Len(batch) - 1 < MaxFrameNo
    /\ InsertPages(c, batch, commit)

\* the connections that read and write pages in Spec
DataConn == 1..(NConn - 1)

\* page traffic: the operations of the connections of DataConn on the shared
\* WAL, with every batch of pages
Next ==
    \/ \E c \in DataConn : BeginLoad(c)
    \/ \E c \in DataConn : BeginCheck(c)
    \/ \E c \in DataConn : DropTx(c)
    \/ \E c \in DataConn : UpgradeAttempt(c)
    \/ \E c \in DataConn : Downgrade(c)
    \/ \E c \in DataConn, batch \in Batches, commit \in BOOLEAN :
            InsertPagesBelow(c, batch, commit)
    \/ \E c \in DataConn : MergeIndex(c)
    \/ \E c \in DataConn : PublishHeader(c)
    \/ \E c \in DataConn : Seal(c)
    \/ \E c \in DataConn : SwapCurrent(c)
    \/ \E c \in DataConn : CheckpointStep(c)
    \/ \E c \in DataConn, p \in Pages : ReadFrame(c, p)

Spec == Init /\ [][Next]_vars

\* the writer lock: every connection contends for it, a write transaction
\* commits one frame of page 1, and it ends by downgrade or by being dropped
NextLock ==
    \/ \E c \in Conn : BeginLoad(c)
    \/ \E c \in Conn : BeginCheck(c)
    \/ \E c \in Conn : DropTx(c)
    \/ \E c \in Conn : DropWriteTx(c)
    \/ \E c \in Conn : UpgradeAttempt(c)
    \/ \E c \in Conn : Downgrade(c)
    \/ \E c \in Conn : InsertPages(c, <<1>>, TRUE)
    \/ \E c \in Conn : MergeIndex(c)
    \/ \E c \in Conn : PublishHeader(c)
    \/ \E c \in Conn : Seal(c)
    \/ \E c \in Conn : SwapCurrent(c)
    \/ \E c \in Conn : CheckpointStep(c)

SpecLock == Init /\ [][NextLock]_vars

\* the writer lock when every write transaction ends with downgrade
NextUpgrade ==
    \/ \E c \in Conn : BeginLoad(c)
    \/ \E c \in Conn : BeginCheck(c)
    \/ \E c \in Conn : DropTx(c)
    \/ \E c \in Conn : UpgradeAttempt(c)
    \/ \E c \in Conn : Downgrade(c)
    \/ \E c \in Conn : InsertPages(c, <<1>>, TRUE)
    \/ \E c \in Conn : MergeIndex(c)
    \/ \E c \in Conn : PublishHeader(c)
    \/ \E c \in Conn : Seal(c)
    \/ \E c \in Conn : SwapCurrent(c)
    \/ \E c \in Conn : CheckpointStep(c)

\* every thread inside upgrade or insert_frames keeps running, and every write
\* transaction is downgraded in the end
FairUpgrade ==
    \A c \in Conn :
        /\ WF_vars(UpgradeAttempt(c))
        /\ WF_vars(Downgrade(c))
        /\ WF_vars(MergeIndex(c))
        /\ WF_vars(PublishHeader(c))
        /\ WF_vars(Seal(c))
        /\ WF_vars(SwapCurrent(c))
        /\ WF_vars(CheckpointStep(c))

SpecUpgrade == Init /\ [][NextUpgrade]_vars /\ FairUpgrade

\* one writing connection with savepoints and rollback, writing a page per
\* insert_frames call, and one reading connection
PageBatches == {b \in Batches : Len(b) = 1}
Writers == {1}
Readers == {2}

NextTx ==
    \/ \E c \in Writers \cup Readers : BeginLoad(c)
    \/ \E c \in Writers \cup Readers : BeginCheck(c)
    \/ \E c \in Writers \cup Readers : DropTx(c)
    \/ \E c \in Writers : UpgradeAttempt(c)
    \/ \E c \in Writers : Downgrade(c)
    \/ \E c \in Writers, batch \in PageBatches, commit \in BOOLEAN :
            InsertPagesBelow(c, batch, commit)
    \/ \E c \in Writers : MergeIndex(c)
    \/ \E c \in Writers : PublishHeader(c)
    \/ \E c \in Writers : Seal(c)
    \/ \E c \in Writers : SwapCurrent(c)
    \/ \E c \in Writers : CheckpointStep(c)
    \/ \E c \in Writers \cup Readers, p \in Pages : ReadFrame(c, p)
    \/ \E c \in Writers : SavepointPush(c)
    \/ \E c \in Writers, k \in 0..(MaxSavepoints - 1) : Reset(c, k)

SpecTx == Init /\ [][NextTx]_vars

\* rotation and checkpoint: the connections of DataConn, every statement a
\* commit, frame numbers up to MaxFrameNo, so that the sealed queue gets long;
\* a checkpoint may meet an I/O error
NextCkpt ==
    \/ \E c \in DataConn : BeginLoad(c)
    \/ \E c \in DataConn : BeginCheck(c)
    \/ \E c \in DataConn : DropTx(c)
    \/ \E c \in DataConn : UpgradeAttempt(c)
    \/ \E c \in DataConn : Downgrade(c)
    \/ \E c \in DataConn, batch \in Batches : InsertPages(c, batch, TRUE)
    \/ \E c \in DataConn : MergeIndex(c)
    \/ \E c \in DataConn : PublishHeader(c)
    \/ \E c \in DataConn : Seal(c)
    \/ \E c \in DataConn : SwapCurrent(c)
    \/ \E c \in DataConn : CheckpointStep(c)
    \/ \E c \in DataConn, k \in 1..(NPages + 1) : CheckpointFail(c, k)
    \/ \E c \in DataConn, p \in Pages : ReadFrame(c, p)

SpecCkpt == Init /\ [][NextCkpt]_vars

\* the threads inside begin_read keep running, and the rotating writer
\* installs the new current segment after every seal
FairBeginRead ==
    \A c \in DataConn :
        /\ WF_vars(BeginLoad(c))
        /\ WF_vars(BeginCheck(c))
        /\ WF_vars(SwapCurrent(c))

SpecRead == SpecCkpt /\ FairBeginRead

\* I/O errors: one writing connection whose writes in insert_pages may end
\* with Err, and one reading connection
NextIo ==
    \/ \E c \in Writers \cup Readers : BeginLoad(c)
    \/ \E c \in Writers \cup Readers : BeginCheck(c)
    \/ \E c \in Writers \cup Readers : DropTx(c)
    \/ \E c \in Writers : UpgradeAttempt(c)
    \/ \E c \in Writers : Downgrade(c)
    \/ \E c \in Writers, batch \in Batches : InsertPagesBelow(c, batch, TRUE)
    \/ \E c \in Writers, batch \in Batches, commit \in BOOLEAN,
            k \in 1..(MaxBatch + 1) : InsertPagesFail(c, batch, commit, k)
    \/ \E c \in Writers : MergeIndex(c)
    \/ \E c \in Writers : PublishHeader(c)
    \/ \E c \in Writers : Seal(c)
    \/ \E c \in Writers, stage \in 1..2 : SealFail(c, stage)
    \/ \E c \in Writers : SwapCurrent(c)
    \/ \E c \in Writers : CheckpointStep(c)
    \/ \E c \in Readers, p \in Pages : ReadFrame(c, p)

SpecIo == Init /\ [][NextIo]_vars

(* ====================== properties of the write-ahead log ============== *)

\* the connections queued for the writer lock, oldest first: the waiter a
\* release has woken (taken off the queue, not yet at the lock), then the queue
Waiting ==
    LET woken == {c \in Conn : pc[c] = "woken"}
    IN (IF woken = {} THEN <<>> ELSE <<CHOOSE c \in woken : TRUE>>) \o waiters

\* the committed slots of segment s
CommittedSlots(s) == 0..(CountCommitted(logs[s].header) - 1)

\* C1: at most one write transaction is live in the namespace, and at most one
\* connection is inside insert_pages
C1_SingleWriter ==
    /\ Cardinality({c \in Conn : tx[c].kind = "write"}) <= 1
    /\ Cardinality({c \in Conn : tx[c].kind = "write" /\ tx[c].id = tx_id}) <= 1
    /\ Cardinality({c \in Conn : pc[c] \in {"merge", "publish"}}) <= 1

\* a writer is inside insert_pages while another connection waits for the lock
C1_Witness ==
    \E w \in Conn, c \in Conn :
        /\ tx[w].kind = "write" /\ pc[w] = "merge"
        /\ pc[c] = "parked" /\ c \in Range(waiters)

\* the image read_frame owes a reader with snapshot max_frame_no for page p: the
\* newest committed frame of p up to the snapshot, else the base-file image
VisibleFrames(t, p) ==
    {f \in 1..Len(hist) : f <= t.max_frame_no /\ hist[f].page = p}

NewestVisible(t, p) ==
    IF VisibleFrames(t, p) = {} THEN db_file[p]
    ELSE LET f == Max(VisibleFrames(t, p))
         IN [page |-> p, data |-> hist[f].data, fno |-> f]

\* C2: read_frame(R, p) of a read transaction R returns the base-file image of p
\* or the newest frame of p with frame number <= R.max_frame_no, never a frame
\* beyond the snapshot and never an older frame than the newest visible one
C2_NewestVisibleFrame ==
    \A c \in Conn : \A p \in Pages :
        (tx[c].kind = "read" /\ pc[c] = "idle")
            => ReadFrameBuf(tx[c], p) = NewestVisible(tx[c], p)

\* C3: the assertion at the end of read_frame never fails, for a read
\* transaction and for a write transaction reading its own uncommitted page
C3_AssertionHolds ==
    /\ \A c \in Conn : pc[c] # "assert_failed"
    /\ \A c \in Conn : \A p \in Pages :
          (tx[c].kind \in {"read", "write"} /\ pc[c] = "idle") => ReadAssertion(tx[c], p)

\* C4: the snapshot pair (max_frame_no, db_size) of every transaction is a pair
\* some commit published (or the pair of the empty log), never the frame
\* number of one commit with the db_size of another
C4_SnapshotNotTorn ==
    \A c \in Conn :
        tx[c].kind \in {"read", "write"}
            => <<tx[c].max_frame_no, tx[c].db_size>> \in published

\* a reader holds the pair of the previous commit while the next commit, which
\* changes db_size, has written its header to the file and not yet published it
C4_Witness ==
    \E w \in Conn, c \in Conn :
        /\ pc[w] = "publish"
        /\ tx[c].kind = "read" /\ pc[c] = "idle" /\ tx[c].log = current
        /\ tx[c].max_frame_no > 0
        /\ <<tx[c].max_frame_no, tx[c].db_size>> = BeginReadInfos(logs[current])
        /\ logs[current].file_header.db_size # logs[current].header.db_size

\* every committed frame of every segment is covered by the segment's page map:
\* the map holds the slot, or a newer committed slot of the same page
C5_IndexCoversHeader ==
    \A s \in 1..Len(logs) : \A o \in CommittedSlots(s) :
        /\ o + 1 <= Len(logs[s].frames)
        /\ LET p == logs[s].frames[o + 1].page_no
           IN /\ p \in Pages
              /\ \E i \in 1..Len(logs[s].index[p]) :
                    /\ logs[s].index[p][i] >= o
                    /\ logs[s].index[p][i] \in CommittedSlots(s)
                    /\ logs[s].frames[logs[s].index[p][i] + 1].page_no = p

\* the step that publishes a new last_commited_frame_no touches neither the page
\* map nor the frames, and is the step on which the committer leaves insert_pages
C5_HeaderIsLastStep ==
    \A s \in 1..Len(logs) :
        logs'[s].header.last_commited_frame_no # logs[s].header.last_commited_frame_no
            => /\ logs'[s].index = logs[s].index
               /\ logs'[s].frames = logs[s].frames
               /\ \E c \in Conn : /\ pc[c] = "publish"
                                  /\ pc'[c] \notin {"merge", "publish"}
                                  /\ tx'[c].is_commited

\* C5: in a commit the reader-visible header is updated last: the savepoint
\* indices are merged into the page map before the header is published, so no
\* snapshot ever sees a committed frame the page map lacks, and no step of
\* insert_pages follows the publication
C5_HeaderPublishedLast == []C5_IndexCoversHeader /\ [][C5_HeaderIsLastStep]_vars

\* a commit has merged its offsets into the page map and not yet published them
C5_Witness ==
    \E c \in Conn :
        /\ pc[c] = "publish"
        /\ logs[current].header # logs[current].file_header
        /\ \E p \in Pages : \E i \in 1..Len(logs[current].index[p]) :
              logs[current].index[p][i] >= CountCommitted(logs[current].header)

\* C6: an upgrade that finds the lock free succeeds only if the last committed
\* frame of the current segment equals R.max_frame_no; if frames were committed
\* after R's begin_read it returns BusySnapshot and R stays the read transaction
C6_UpgradeChecksSnapshot ==
    [][\A c \in Conn :
          (UpgradeAttempt(c) /\ LockIsFree) =>
              /\ tx'[c].kind = "write"
                    => tx[c].max_frame_no = LastCommitted(logs[current].header)
              /\ Len(hist) > tx[c].max_frame_no
                    => /\ pc'[c] = "busy"
                       /\ tx'[c] = tx[c]
                       /\ tx_id' = NoId]_vars

\* an upgrade has returned BusySnapshot to a reader whose snapshot is behind
C6_Witness ==
    \E c \in Conn :
        /\ pc[c] = "busy" /\ tx[c].kind = "read"
        /\ Len(hist) > tx[c].max_frame_no

\* C7: the connection that claims the writer lock is the oldest connection
\* still waiting for it, whenever one waits
C7_FifoHandoff ==
    [][\A c \in Conn :
          (tx[c].kind = "read" /\ tx'[c].kind = "write" /\ Waiting # <<>>)
              => c = Head(Waiting)]_vars

\* C8: while the reserved slot names a woken waiter that has not yet claimed the
\* lock, an arriving upgrade does not acquire the lock and is enqueued
C8_NoBarging ==
    [][\A c \in Conn :
          (UpgradeAttempt(c) /\ reserved \notin {NoId, c} /\ pc[reserved] = "woken")
              => /\ tx'[c].kind # "write"
                 /\ waiters' = Append(waiters, c)]_vars

\* C9: while a write transaction holds the writer lock and no rotation is in
\* progress, every step of begin_read and every read_frame of another
\* connection can be taken, and begin_read on the current segment returns
C9_ReadersNotBlocked ==
    (tx_id # NoId /\ ~logs[current].sealed) =>
        \A c \in Conn :
            /\ (tx[c].kind = "none" /\ pc[c] \in {"idle", "br_load"})
                    => ENABLED BeginLoad(c)
            /\ (pc[c] = "br_check" /\ tx[c].log = current)
                    => ENABLED (BeginCheck(c) /\ tx'[c].kind = "read")
            /\ (tx[c].kind = "read" /\ pc[c] = "idle")
                    => \A p \in Pages : ENABLED ReadFrame(c, p)

\* a connection is inside begin_read, past the increment, while a writer is
\* inside the commit of insert_pages
C9_Witness ==
    \E w \in Conn, c \in Conn :
        /\ tx[w].kind = "write" /\ tx_id = tx[w].id /\ pc[w] = "publish"
        /\ pc[c] = "br_check" /\ tx[c].log = current
        /\ ~logs[current].sealed

\* the committed frames of all segments, as (segment, slot)
CommittedFrames ==
    UNION {{<<s, o>> : o \in CommittedSlots(s)} : s \in 1..Len(logs)}

FrameAt(a) == logs[a[1]].frames[a[2] + 1]

\* commit order follows id order, no frame number is on two committed frames,
\* and every committed frame is the one its frame number was committed with
C10_FrameNumbers ==
    /\ \A i \in 1..MaxTxId, j \in 1..MaxTxId :
          (i < j /\ commits[i] # 0 /\ commits[j] # 0) => commits[i] <= commits[j]
    /\ \A a \in CommittedFrames, b \in CommittedFrames :
          a # b => FrameAt(a).fno # FrameAt(b).fno
    /\ \A a \in CommittedFrames :
          /\ FrameAt(a).fno \in 1..Len(hist)
          /\ hist[FrameAt(a).fno] = [page |-> FrameAt(a).page_no, data |-> FrameAt(a).data]

\* the last committed frame number of the namespace does not go down
C10_LastCommittedGrows ==
    /\ LastCommitted(logs'[current'].header) >= LastCommitted(logs[current].header)
    /\ Len(hist') >= Len(hist)

\* C10: frame numbers are monotonic per namespace: a transaction with a larger
\* id commits at a next_frame_no at least as large, every frame number is on at
\* most one committed frame, and the last committed frame number never
\* decreases across commits and rotations
C10_MonotonicFrameNumbers == []C10_FrameNumbers /\ [][C10_LastCommittedGrows]_vars

\* two transactions have committed frames and the log has rotated
C10_Witness ==
    \E i \in 1..MaxTxId, j \in 1..MaxTxId :
        /\ i < j /\ commits[i] # 0 /\ commits[i] < commits[j]
        /\ Len(logs) >= 2
        /\ Cardinality(CommittedFrames) >= 2

\* a sealed segment keeps its flag, its frames, its page map and its header
C11_SealedIsFrozen ==
    \A s \in 1..Len(logs) :
        logs[s].sealed =>
            /\ logs'[s].sealed
            /\ logs'[s].frames = logs[s].frames
            /\ logs'[s].index = logs[s].index
            /\ logs'[s].header = logs[s].header
            /\ logs'[s].file_header = logs[s].file_header

\* every queued segment is sealed, no segment is queued twice, and the sealed
\* form holds the header and the page map of the live form it was sealed from
C11_SealedOnce ==
    /\ \A i \in 1..Len(segments) :
          /\ logs[segments[i].log].sealed
          /\ segments[i].header = logs[segments[i].log].header
    /\ \A i \in 1..Len(segments), j \in 1..Len(segments) :
          i # j => segments[i].log # segments[j].log
    /\ \A s \in 1..Len(logs) : logs[s].sealed => s # current \/ (\E c \in Conn : pc[c] = "swap")

\* C11: once a segment is sealed no insert_pages on it succeeds: the sealed
\* flag only goes from false to true, a segment is sealed at most once, and a
\* sealed segment never gains a frame nor changes its header
C11_NoInsertAfterSeal == []C11_SealedOnce /\ [][C11_SealedIsFrozen]_vars

\* a segment has been sealed and a later transaction has committed frames
C11_Witness ==
    \E s \in 1..Len(logs) :
        /\ logs[s].sealed /\ s # current
        /\ CountCommitted(logs[current].header) > 0
        /\ \E c \in Conn : tx[c].kind = "write" /\ tx[c].log = s

\* the number of segments the step pops from the front of the sealed queue
Popped == Len(segments) - Len(segments')

\* C12: a checkpoint that folds the segments S1..Sk into the base file and
\* removes them leaves read_frame unchanged, for every page and every live
\* transaction whose max_frame_no is at least the last committed frame of Sk
C12_CheckpointPreservesReads ==
    [][(Popped > 0) =>
          \A c \in Conn : \A p \in Pages :
              (/\ tx[c].kind \in {"read", "write"}
               /\ tx[c].max_frame_no >= segments[Popped].header.last_commited_frame_no)
                  => ReadFrameBuf(tx[c], p)' = ReadFrameBuf(tx[c], p)]_vars

\* the writer whose insert_frames ran a checkpoint reads a page from the base
\* file that the checkpoint wrote there
C12_Witness ==
    \E c \in Conn : \E p \in Pages :
        /\ tx[c].kind = "write" /\ pc[c] = "idle"
        /\ \E s \in 1..Len(logs) : logs[s].removed
        /\ db_file[p] # ZeroBuf
        /\ LogFindFrame(logs[tx[c].log], p, tx[c]) = <<>>
        /\ ReadFromSegments(p, tx[c].max_frame_no, Len(segments)) = <<>>
        /\ ReadFrameBuf(tx[c], p) = db_file[p]

\* the segments a step removes: each is sealed, has no read lock, is among the
\* Popped front entries of the queue, and every page of its index is in the
\* base file afterwards with the image of a popped segment at least as new
C13_RemovalStep ==
    /\ \A s \in 1..Len(logs) :
          (~logs[s].removed /\ logs'[s].removed) =>
              /\ logs[s].sealed
              /\ logs[s].read_locks = 0
              /\ \E i \in 1..Popped :
                    /\ segments[i].log = s
                    /\ \A p \in DOMAIN segments[i].index :
                          \E j \in i..Popped :
                              /\ p \in DOMAIN segments[j].index
                              /\ db_file'[p] = ReadPageOffset(logs[segments[j].log],
                                                              segments[j].index[p])
    /\ \/ segments' = segments
       \/ Len(segments') = Len(segments) + 1
            /\ SubSeq(segments', 1, Len(segments)) = segments
       \/ Popped > 0
            /\ segments' = SubSeq(segments, Popped + 1, Len(segments))
            /\ \A i \in 1..Popped : logs'[segments[i].log].removed

\* no transaction is pinned to a removed segment, and a removed segment is
\* neither queued nor current
C13_NoPinnedRemoved ==
    /\ \A c \in Conn : tx[c].kind \in {"read", "write"} => ~logs[tx[c].log].removed
    /\ \A i \in 1..Len(segments) : ~logs[segments[i].log].removed
    /\ ~logs[current].removed

PoppedWith(p) == {i \in 1..Popped : p \in DOMAIN segments[i].index}

\* the committed frames of page p up to frame number last
FramesUpTo(p, last) == {f \in 1..Len(hist) : f <= last /\ hist[f].page = p}

\* C14: checkpoint is newest-wins: for every page in the index of a segment of
\* the checkpointed prefix, the image written to the base file is the one of
\* the segment with the highest queue position holding the page (the newest
\* committed frame of the page in the prefix); other pages are left alone
C14_CheckpointNewestWins ==
    [][(Popped > 0) =>
          \A p \in Pages :
              IF PoppedWith(p) = {} THEN db_file'[p] = db_file[p]
              ELSE LET seg == segments[Max(PoppedWith(p))]
                       last == segments[Popped].header.last_commited_frame_no
                   IN /\ db_file'[p] = FrameBuf(logs[seg.log].frames[seg.index[p] + 1])
                      /\ db_file'[p].page = p
                      /\ db_file'[p].fno = Max(FramesUpTo(p, last))]_vars

\* two removed segments both held page p and the base file has the image of
\* the newer one
C14_Witness ==
    \E s1 \in 1..Len(logs), s2 \in 1..Len(logs) : \E p \in Pages :
        /\ s1 < s2 /\ logs[s1].removed /\ logs[s2].removed
        /\ logs[s1].index[p] # <<>> /\ logs[s2].index[p] # <<>>
        /\ db_file[p].fno >= logs[s2].header.start_frame_no
        /\ db_file[p].page = p

\* C15: an I/O error during checkpoint aborts it without popping a segment and
\* without deleting a file, and insert_frames returns, so that a later trigger
\* can retry
C15_CheckpointErrorRetries ==
    [][\A c \in Conn : \A k \in 1..(NPages + 1) :
          CheckpointFail(c, k) =>
              /\ segments' = segments
              /\ \A s \in 1..Len(logs) : logs'[s].removed = logs[s].removed
              /\ pc'[c] = "idle"]_vars

\* the insert_pages call of connection c that ends with an I/O error
FailedInsert(c) ==
    \E batch \in Batches, commit \in BOOLEAN, k \in 1..(MaxBatch + 1) :
        InsertPagesFail(c, batch, commit, k)

\* C16: an insert_pages call that meets an I/O error, in a frame write or in
\* the header write, leaves the in-memory page map and the in-memory header of
\* the segment as they were and the transaction not committed, and a read
\* transaction that begins after it takes the snapshot it would have taken
\* before and reads every page as before: it sees none of the attempted frames.
C16_FailedInsertInvisible ==
    [][\A c \in Conn :
          FailedInsert(c) =>
              /\ logs'[current].index = logs[current].index
              /\ logs'[current].header = logs[current].header
              /\ ~tx'[c].is_commited
              /\ BeginReadInfos(logs[current])' = BeginReadInfos(logs[current])
              /\ \A p \in Pages :
                    LET infos == BeginReadInfos(logs[current])
                        t == ReadTx(current, infos[1], infos[2])
                    IN ReadFrameBuf(t, p)' = ReadFrameBuf(t, p)]_vars

\* a write of insert_pages failed after a commit by someone, its transaction is
\* still open with a frame number spent on a frame that is not in the file,
\* and a read transaction began on the segment
C16_Witness ==
    \E c, d \in Conn :
        /\ tx[c].kind = "write"
        /\ ~tx[c].is_commited
        /\ tx[c].next_offset > Len(logs[current].frames)
        /\ logs[current].frames # <<>>
        /\ tx[d].kind = "read"
        /\ tx[d].log = current

\* two transactions have committed, the first the frames 1..RotateFrames
\* and the second two frames more, the second is back from insert_frames, and
\* no checkpoint has removed a segment
RotationScenario(c) ==
    /\ tx[c].kind = "write"
    /\ tx[c].is_commited
    /\ pc[c] = "idle"
    /\ \E i, j \in 1..MaxTxId :
          /\ i < j
          /\ tx[c].id = j
          /\ commits = [n \in 1..MaxTxId |->
                           IF n = i THEN RotateFrames + 1
                           ELSE IF n = j THEN RotateFrames + 3 ELSE 0]
    /\ \A s \in 1..Len(logs) : ~logs[s].removed

\* C17: with the rotation threshold RotateFrames, after a first transaction
\* committed RotateFrames frames and a second one two frames more, the sealed
\* queue holds exactly one segment, whose last committed frame number is
\* RotateFrames, and the current segment starts at RotateFrames + 1 and has
\* RotateFrames + 2 as its last committed frame number: the rotation came when
\* the committed frame count reached the threshold.
C17_RotationAtThreshold ==
    \A c \in Conn :
        RotationScenario(c) =>
            /\ Len(segments) = 1
            /\ segments[1].header.last_commited_frame_no = RotateFrames
            /\ logs[current].header.start_frame_no = RotateFrames + 1
            /\ LastCommitted(logs[current].header) = RotateFrames + 2

\* no connection is between the seal of the current segment and the swap
NoRotationInProgress == \A c \in Conn : pc[c] # "swap"

\* the segments a checkpoint has removed
Removed == {s \in 1..Len(logs) : logs[s].removed}

\* C18: I1 as stated: the current segment starts one frame after the last
\* committed frame of the last segment of the sealed queue, and at frame 1
\* whenever the sealed queue is empty.
C18_StartAfterQueue ==
    NoRotationInProgress =>
        logs[current].header.start_frame_no =
            IF segments = <<>> THEN 1
            ELSE segments[Len(segments)].header.last_commited_frame_no + 1

\* C18 amended: the current segment starts one frame after the last committed
\* frame of the last segment of the sealed queue; with an empty queue it starts
\* one frame after the last committed frame of the newest segment a checkpoint
\* has removed, and at frame 1 only when no segment was ever sealed.
C18_StartAfterLastSealed ==
    NoRotationInProgress =>
        logs[current].header.start_frame_no =
            IF segments # <<>>
            THEN segments[Len(segments)].header.last_commited_frame_no + 1
            ELSE IF Removed # {}
            THEN Max({logs[s].header.last_commited_frame_no : s \in Removed}) + 1
            ELSE 1

\* a checkpoint has emptied the sealed queue and the current segment starts
\* after the frames it moved to the database file
C18_Witness ==
    /\ NoRotationInProgress
    /\ segments = <<>>
    /\ Removed # {}
    /\ logs[current].header.start_frame_no > 1
    /\ CountCommitted(logs[current].header) > 0

\* C19: I2: of two segments of the sealed queue the earlier one ends before
\* the later one starts, last_commited_frame_no(s1) < start_frame_no(s2), and
\* the assertion prev_seg > last of read_from_segments holds on the whole queue.
C19_QueueOrdered ==
    /\ \A i \in 1..Len(segments) : \A j \in 1..Len(segments) :
          i < j => segments[i].header.last_commited_frame_no
                       < segments[j].header.start_frame_no
    /\ SegmentsAssertion

\* two segments are queued while a read transaction on the current segment is
\* open, so that its read_frame walks both
C19_Witness ==
    /\ Len(segments) >= 2
    /\ \E c \in Conn : tx[c].kind = "read" /\ pc[c] = "idle" /\ tx[c].log = current

\* the read transaction of connection c began after the newest commit, and no
\* later transaction has put frames into the page map
BegunAfterCommit(c) ==
    /\ tx[c].kind = "read"
    /\ pc[c] = "idle"
    /\ hist # <<>>
    /\ tx[c].max_frame_no = Len(hist)
    /\ \A w \in Conn : pc[w] # "publish"

\* C20: write/read round trip: a read transaction begun after a commit reads,
\* for every page the log holds, the last image committed for that page (the
\* last of several writes of the page, whatever the batches and savepoints they
\* came in), and the trailing frame number of the buffer is the frame number
\* that image was committed with.
C20_RoundTrip ==
    \A c \in Conn : \A p \in Pages :
        (BegunAfterCommit(c) /\ VisibleFrames(tx[c], p) # {})
            => ReadFrameBuf(tx[c], p) = NewestVisible(tx[c], p)

\* connection c holds the same read transaction before and after the step
SameReadTx(c) ==
    /\ tx[c].kind = "read"
    /\ pc[c] = "idle"
    /\ tx'[c] = tx[c]
    /\ pc'[c] = "idle"

\* C21: snapshot stability: while a read transaction lives, no step of another
\* connection (a commit, a rotation, a checkpoint) changes what its read_frame
\* returns for any page; its max_frame_no and db_size are those of begin_read.
C21_SnapshotStable ==
    [][\A c \in Conn : \A p \in Pages :
          SameReadTx(c) => ReadFrameBuf(tx[c], p)' = ReadFrameBuf(tx[c], p)]_vars

\* the live transactions pinned to segment s: read transactions and the read
\* transactions embedded in write transactions
Pinned(s) == {c \in Conn : tx[c].kind \in {"read", "write"} /\ tx[c].log = s}

\* no begin_read is in progress
Quiescent == \A c \in Conn : pc[c] \notin {"br_load", "br_check"}

\* C22: read-lock accounting: in every quiescent state the read-lock count of
\* each segment is the number of live transactions pinned to it (a begin_read
\* that met a sealed segment has given back the count it took).
C22_ReadLockAccounting ==
    Quiescent => \A s \in 1..Len(logs) : logs[s].read_locks = Cardinality(Pinned(s))

\* connection c is inside begin_read
InBeginRead(c) == pc[c] \in {"br_load", "br_check"}

\* the segment of the transaction begin_read returns is not sealed at its
\* sealed test, which follows the increment of its read-lock count
ReturnsUnsealed ==
    \A c \in Conn :
        (pc[c] = "br_check" /\ tx'[c].kind = "read")
            => /\ ~logs[tx'[c].log].sealed
               /\ logs[tx'[c].log].read_locks >= 1

C24_NoWaiterParkedForever ==
    \A c \in Conn : (pc[c] = "parked") ~> (pc[c] # "parked")

\* the connections a step wakes
Woken == {c \in Conn : pc[c] # "woken" /\ pc'[c] = "woken"}

\* the step is the downgrade of the write transaction of connection c
Downgrades(c) == tx[c].kind = "write" /\ tx'[c].kind = "read"

\* C25: the release step of downgrade: tx_id is cleared only if it holds the
\* id of the downgrading transaction; with reserved occupied nobody is woken
\* and the waiter queue stays as it is; otherwise exactly the oldest waiter
\* leaves the queue, is recorded in reserved and is the only one woken.
C25_DowngradeRelease ==
    [][\A c \in Conn :
          Downgrades(c) =>
              /\ tx_id' = IF tx_id = tx[c].id THEN NoId ELSE tx_id
              /\ Cardinality(Woken) <= 1
              /\ IF reserved # NoId \/ waiters = <<>>
                 THEN Woken = {} /\ waiters' = waiters /\ reserved' = reserved
                 ELSE /\ Woken = {Head(waiters)}
                      /\ waiters' = Tail(waiters)
                      /\ reserved' = Head(waiters)]_vars

\* a downgrade has found reserved occupied and left a waiter in the queue, after
\* an earlier downgrade had woken the waiter that reserved names
C25_Witness ==
    /\ tx_id = NoId
    /\ reserved # NoId
    /\ waiters # <<>>
    /\ \A c \in Conn : pc[c] # "woken"

\* C26: the reserved slot: whenever reserved names a connection, that
\* connection is a woken waiter that has not yet claimed the writer lock, and
\* reserved is emptied in the end (when the waiter claims the lock or gives up).
C26_ReservedCleared ==
    /\ [](reserved # NoId => pc[reserved] = "woken")
    /\ (reserved # NoId) ~> (reserved = NoId)

\* C27: a seal that fails with an I/O error, while writing the index or while
\* rewriting the header, leaves the segment unsealed and its header with
\* index_offset = 0: the sealed flag is set last.
C27_FailedSealLeavesUnsealed ==
    [][\A c \in Conn : \A stage \in 1..2 :
          SealFail(c, stage) =>
              /\ ~logs'[current].sealed
              /\ logs'[current].header.index_offset = 0]_vars

\* C28: commit-frame stamping: in every segment the frame of the last
\* committed frame number carries the published db_size as its size_after, and
\* a committed frame with a size_after other than 0 is the last frame of a
\* commit - also when the committing call brings no page after earlier calls
\* have buffered frames.
C28_CommitFrameStamped ==
    \A s \in 1..Len(logs) :
        LET h == logs[s].header
            n == CountCommitted(h)
        IN n > 0 =>
              /\ logs[s].frames[n].size_after = h.db_size
              /\ \A o \in 1..n :
                    logs[s].frames[o].size_after # 0
                        => \E i \in 1..MaxTxId : commits[i] = logs[s].frames[o].fno + 1

\* the slots of the current segment that hold the writes of page p by the open
\* write transaction t which no rollback has undone: those from the slot its
\* first savepoint recorded up to next_offset
WriteSlots(t, p) ==
    {o \in t.savepoints[1].next_offset..(t.next_offset - 1) :
        /\ o + 1 <= Len(logs[current].frames)
        /\ logs[current].frames[o + 1].page_no = p}

\* the committed slots of page p in segment s whose frame number is within the
\* snapshot of t
SnapshotSlots(s, t, p) ==
    {o \in CommittedSlots(s) :
        /\ logs[s].frames[o + 1].page_no = p
        /\ logs[s].frames[o + 1].fno <= t.max_frame_no}

\* C29: read-your-writes: for an open write transaction W, find_frame of a
\* page W has written (and not rolled back) is the slot of W's most recent
\* write of it, whatever is committed; for a page W has not written it is the
\* greatest committed slot of the page with a frame number <= W.max_frame_no.
C29_ReadYourWrites ==
    \A c \in Conn : \A p \in Pages :
        (tx[c].kind = "write" /\ ~tx[c].is_commited /\ pc[c] = "idle")
            => LogFindFrame(logs[tx[c].log], p, tx[c]) =
                  IF WriteSlots(tx[c], p) # {} THEN <<Max(WriteSlots(tx[c], p))>>
                  ELSE IF SnapshotSlots(tx[c].log, tx[c], p) # {}
                       THEN <<Max(SnapshotSlots(tx[c].log, tx[c], p))>>
                       ELSE <<>>

\* what reset(savepoint_id) leaves in the transaction of connection c
ResetLeaves(c, savepoint_id) ==
    LET kept == tx[c].savepoints[savepoint_id + 1]
    IN /\ Len(tx'[c].savepoints) = savepoint_id + 1
       /\ tx'[c].next_frame_no = kept.next_frame_no
       /\ tx'[c].next_offset = kept.next_offset
       /\ \A k \in 1..Len(tx'[c].savepoints) :
             \A p \in DOMAIN tx'[c].savepoints[k].index :
                 tx'[c].savepoints[k].index[p] < tx'[c].next_offset

\* every entry of a page map leads to a slot that holds an image of its page
PageMapSound ==
    \A s \in 1..Len(logs) : \A p \in Pages : \A i \in 1..Len(logs[s].index[p]) :
        LET o == logs[s].index[p][i]
        IN o + 1 <= Len(logs[s].frames) /\ logs[s].frames[o + 1].page_no = p

\* C30: savepoint rollback: reset(savepoint_id) discards the later savepoints,
\* restores next_frame_no and next_offset of savepoint savepoint_id and leaves
\* no index entry at a slot >= next_offset; and so no commit ever leaves a page
\* of the page map at a slot that holds the image of another page.
C30_RollbackForgetsWrites ==
    /\ []PageMapSound
    /\ [][\A c \in Conn : \A k \in 0..(MaxSavepoints - 1) :
             Reset(c, k) => ResetLeaves(c, k)]_vars

\* the committed slots of segment s that hold a frame of page p
PageSlots(s, p) == {o \in CommittedSlots(s) : logs[s].frames[o + 1].page_no = p}

\* the live lookup of page p in segment s at max_frame_no = last committed, as
\* read_frame reads it: locate, then read_page_offset
LiveRead(s, p) ==
    LET f == LogIndexLocate(logs[s], p, LastCommitted(logs[s].header))
    IN IF f = <<>> THEN <<>> ELSE <<ReadPageOffset(logs[s], f[1])>>

\* C31: seal round trip: the index of a sealed segment holds exactly the pages
\* of the live page map, each at the slot of the highest-numbered committed
\* frame of that page; read_page(p, max) with max >= last_committed_frame_no
\* gives what the live lookup of p at the last committed frame gave, and it
\* gives false for a page the segment never wrote and whenever
\* last_committed_frame_no > max.
C31_SealRoundTrip ==
    \A i \in 1..Len(segments) :
        LET seg == segments[i]
            s == seg.log
            last == seg.header.last_commited_frame_no
        IN /\ DOMAIN seg.index = {p \in Pages : logs[s].index[p] # <<>>}
           /\ \A p \in DOMAIN seg.index :
                 PageSlots(s, p) # {} /\ seg.index[p] = Max(PageSlots(s, p))
           /\ \A p \in Pages : \A max \in 0..MaxFrameNo :
                 /\ max >= last => SealedReadPage(seg, p, max) = LiveRead(s, p)
                 /\ (max < last \/ PageSlots(s, p) = {})
                       => SealedReadPage(seg, p, max) = <<>>

\* a sealed segment is queued that wrote one page twice and the other never
C31_Witness ==
    \E i \in 1..Len(segments) : \E p, q \in Pages :
        /\ Cardinality(PageSlots(segments[i].log, p)) >= 2
        /\ PageSlots(segments[i].log, q) = {}
        /\ SealedReadPage(segments[i], p, MaxFrameNo) # <<>>

\* connection d holds a read transaction begun at the last committed frame of
\* the current segment
FreshSnapshot(d) ==
    /\ tx[d].kind = "read"
    /\ pc[d] = "idle"
    /\ ~SnapshotIsStale(tx[d])

\* an upgrade by d would take the None arm and pass the snapshot test
UpgradeWouldSucceed(d) ==
    /\ tx[d].kind = "read"
    /\ pc[d] \in {"idle", "woken"}
    /\ ~TxMutexHeld
    /\ LockIsFree
    /\ ~SnapshotIsStale(tx[d])

\* C32: when upgrade returns BusySnapshot the writer lock is free (tx_id is
\* None), the caller's transaction is the read transaction it was, with its
\* snapshot and its read lock, and an upgrade by another connection with a
\* fresh snapshot then succeeds
C32_FailedUpgradeLeavesLockFree ==
    [][\A c \in Conn :
          /\ (UpgradeAttempt(c) /\ pc'[c] = "busy") =>
                /\ tx_id' = NoId
                /\ tx'[c] = tx[c]
                /\ tx'[c].kind = "read"
                /\ logs'[tx[c].log].read_locks = logs[tx[c].log].read_locks
                /\ logs'[tx[c].log].read_locks > 0
                /\ \A d \in Conn \ {c} : FreshSnapshot(d)' => UpgradeWouldSucceed(d)'
          /\ (UpgradeAttempt(c) /\ UpgradeWouldSucceed(c) /\ \E d \in Conn : pc[d] = "busy")
                => tx'[c].kind = "write" /\ tx_id' = tx'[c].id]_vars

\* an upgrade has returned BusySnapshot to one connection and another
\* connection, with a newer snapshot, has taken the writer lock after it
C32_Witness ==
    \E c, d \in Conn :
        /\ pc[c] = "busy" /\ tx[c].kind = "read"
        /\ tx[d].kind = "write" /\ tx_id = tx[d].id
        /\ tx[d].max_frame_no > tx[c].max_frame_no

\* C33: whenever an uncommitted write transaction W may call enter, and while
\* it is inside enter, tx_id is Some(W.id): neither the "lock stolen" arm
\* (tx_id holds another id) nor the "not a transaction" arm (tx_id is None) is
\* reachable, whatever upgrades, downgrades and drops the other connections do
C33_LockOwnedInCriticalSection ==
    \A c \in Conn :
        (tx[c].kind = "write" /\ ~tx[c].is_commited)
            => /\ tx_id # NoId
               /\ tx_id = tx[c].id

\* a write transaction is inside enter, uncommitted, after an earlier writer
\* released the lock and while another connection is parked in upgrade
C33_Witness ==
    \E c \in Conn, d \in Conn :
        /\ tx[c].kind = "write" /\ ~tx[c].is_commited /\ pc[c] = "merge"
        /\ tx[c].id > 1
        /\ d # c /\ pc[d] = "parked"

\* C34: when the write of page number k of a batch fails inside insert_pages,
\* the write transaction's next_frame_no, next_offset and savepoint indices are
\* what they were before the failing frame, that is after the k - 1 pages
\* written before it, and the page map and the header of the segment are
\* unchanged: no frame number and no slot is skipped
C34_FailedFrameLeavesCounters ==
    [][\A c \in Conn : \A batch \in Batches : \A commit \in BOOLEAN :
          \A k \in 1..Len(batch) :
              InsertPagesFail(c, batch, commit, k) =>
                  LET before == TxAfterFrames(tx[c], SubSeq(batch, 1, k - 1))
                  IN /\ tx'[c].next_frame_no = before.next_frame_no
                     /\ tx'[c].next_offset = before.next_offset
                     /\ tx'[c].savepoints = before.savepoints
                     /\ logs'[current].index = logs[current].index
                     /\ logs'[current].header = logs[current].header]_vars

\* the slots of segment s that hold a frame
WrittenSlots(s) == {o \in 0..(Len(logs[s].frames) - 1) : logs[s].frames[o + 1] # HoleFrame}

\* the frame at slot o of a segment has frame number start_frame_no + o
C35_SlotFrameNo ==
    \A s \in 1..Len(logs) : \A o \in WrittenSlots(s) :
        logs[s].frames[o + 1].fno = logs[s].header.start_frame_no + o

\* upgrade starts the write transaction at the committed frames of the
\* current segment and at the frame number after the last committed one
C35_WriteTxStart ==
    \A c \in Conn :
        (tx[c].kind = "read" /\ tx'[c].kind = "write")
            => /\ tx'[c].next_offset = CountCommitted(logs[current].header)
               /\ tx'[c].next_frame_no = LastCommitted(logs[current].header) + 1

\* the test of LogIndex::locate on a slot is true exactly when the frame number
\* stored in the slot is <= max_frame_no
C35_VisibilityTest ==
    \A s \in 1..Len(logs) : \A o \in WrittenSlots(s) : \A max \in 0..MaxFrameNo :
        (logs[s].index_start + o <= max) <=> (logs[s].frames[o + 1].fno <= max)

\* C35: in every segment the frame at slot o has frame number
\* start_frame_no + o, a write transaction starts at next_offset = committed
\* frames of the segment and next_frame_no = last committed + 1, and the
\* visibility test of the live index (start_frame_no + offset <= max_frame_no)
\* uses the segment's start_frame_no, so that it is true exactly when the frame
\* number stored in the slot is <= max_frame_no
C35_SlotFrameCorrespondence ==
    [](C35_SlotFrameNo /\ C35_VisibilityTest) /\ [][C35_WriteTxStart]_vars

\* the two parts of C35 that do not depend on LogIndex.start_frame_no
C35_SlotsAndStart == []C35_SlotFrameNo /\ [][C35_WriteTxStart]_vars

\* connection c appends frames in this step
InsertsFrames(c) ==
    /\ tx[c].kind = "write"
    /\ tx'[c].kind = "write"
    /\ tx'[c].next_offset > tx[c].next_offset

\* what write transaction t reads for a page of its savepoint indices is a
\* frame of that page that t wrote
ReadsOwnFrame(t, p) ==
    LET buf == ReadFrameBuf(t, p)
    IN buf.page = p /\ buf.fno >= t.savepoints[1].next_frame_no

\* C36: whenever a write transaction W inserts frames, the segment that
\* receives them (the current segment) is the segment W's snapshot is pinned
\* to (W.log), also when a rotation came between W's begin_read and its
\* upgrade; hence the slots in W's savepoint indices are read back from the
\* file they were written to
C36_WritesToPinnedSegment ==
    /\ [][\A c \in Conn : InsertsFrames(c) => tx[c].log = current]_vars
    /\ [](\A c \in Conn : \A p \in Pages :
             (tx[c].kind = "write" /\ TxFindFrame(tx[c], p) # <<>>)
                 => ReadsOwnFrame(tx[c], p))

\* the read-back half of C36 alone
C36_ReadBack ==
    \A c \in Conn : \A p \in Pages :
        (tx[c].kind = "write" /\ TxFindFrame(tx[c], p) # <<>> /\ tx[c].log = current)
            => ReadsOwnFrame(tx[c], p)

====
